---- MODULE Spec2Model ----
(***************************************************************************)
(* Model of tensorflow_addons/layers/optical_flow.py: the CorrelationCost  *)
(* Keras layer, the _correlation_cost wrapper, the registered gradient     *)
(* _correlation_cost_grad, and the correlation kernels they invoke.        *)
(*                                                                         *)
(* Spec       : the Python wrapper (constructor, build, call,              *)
(*              compute_output_shape, _correlation_cost, gradient).        *)
(* KernelSpec : the forward and backward correlation kernels, run by two   *)
(*              concurrent workers over the (n, i, j, dy, dx) iterations.  *)
(***************************************************************************)
EXTENDS Integers, Sequences, FiniteSets

VARIABLES
    layer,      \* the constructed CorrelationCost object, or NoLayer
    args,       \* arguments of the operation that last ran
    res,        \* what that operation returned or raised
    invoked,    \* the kernel op that operation created (op_call), or NoOp
    kcfg,       \* kernel run: parameters and input seeds
    kphase,     \* kernel run: "off", "forward", "backward", "done"
    kpos,       \* kernel run: per worker, work items finished
    out,        \* kernel run: forward output (cost volume)
    writes,     \* kernel run: number of writes to each output element
    gradA,      \* kernel run: gradient w.r.t. input A
    gradB       \* kernel run: gradient w.r.t. input B

wvars == <<layer, args, res, invoked>>
kvars == <<kcfg, kphase, kpos, out, writes, gradA, gradB>>
vars == <<layer, args, res, invoked,
          kcfg, kphase, kpos, out, writes, gradA, gradB>>

(***************************************************************************)
(* Bounds of the wrapper model.                                            *)
(***************************************************************************)
MaxKernel == 3
MaxDisp == 1
MaxStride == 2
MaxPad == 2
MaxDim == 2
MaxArity == 3

KernelSizes == 0..MaxKernel
Displacements == 0..MaxDisp
Strides == 0..MaxStride
Pads == 0..MaxPad

DataFormats == {"channels_last", "channels_first", "NHWC", "channels_mid"}

Params == [kernel_size : KernelSizes, max_displacement : Displacements,
           stride_1 : Strides, stride_2 : Strides, pad : Pads]

\* A shape is a 4-tuple of extents.
Shapes == [1..4 -> 1..MaxDim]

\* Shapes that agree with s, or differ from it in exactly one axis.
Near(s) == {s} \cup {[s EXCEPT ![i] = (s[i] % MaxDim) + 1] : i \in 1..4}

\* Lists of shapes over S: empty, one shape, two shapes that agree or differ in
\* one axis, and longer lists (the entries past the first repeat it).
RECURSIVE Repeat(_, _)
Repeat(s, n) == IF n = 0 THEN <<>> ELSE <<s>> \o Repeat(s, n - 1)

ListsOver(S) ==
    {<<>>} \cup {<<s>> : s \in S}
           \cup UNION {{<<s, t>> : t \in Near(s)} : s \in S}
           \cup {Repeat(s, n) : <<s, n>> \in S \X (3..MaxArity)}

ShapeLists == ListsOver(Shapes)

\* build, call and _correlation_cost never read a shape: their inputs are drawn
\* around one shape.
BaseShape == [i \in 1..4 |-> MaxDim]
BaseLists == ListsOver({BaseShape})

\* A tensor is known by its identity and its shape.
Tensor(i, s) == [id |-> i, shape |-> s]
TensorList(l) == [i \in 1..Len(l) |-> Tensor(i, l[i])]

\* What a caller may pass as inputs: a list of tensors, or one bare tensor.
ListArg(l) == [isList |-> TRUE, items |-> l]
BareArg(x) == [isList |-> FALSE, items |-> <<x>>]

NoLayer == [kind |-> "none"]
NoOp == [kind |-> "none"]
NoArgs == [kind |-> "none"]

Idle == [status |-> "idle"]
Ok(f, v) == [status |-> "ok", fn |-> f, value |-> v]
Raise(f, t, m) == [status |-> "error", fn |-> f, type |-> t, msg |-> m]

MsgLayoutInit == "data_format must be either channels_last or channels_first, instead got"
MsgLayout == "data_format must be either channels_last orchannels_first"
MsgTwoTensors == "Input must be a list of two Tensors to process"
MsgTwoShapes == "Input must be a list of two shapes"
MsgShapesMatch == "Input shapes must match"

(***************************************************************************)
(* Shape arithmetic of compute_output_shape.                               *)
(***************************************************************************)
\* r = self.max_displacement // self.stride_2
DisplacementRadius(max_displacement, stride_2) == max_displacement \div stride_2

\* bd = self.max_displacement + (self.kernel_size - 1) // 2
BorderSize(max_displacement, kernel_size) == max_displacement + (kernel_size - 1) \div 2

\* Variant: the square is written as a doubling.
OutputChannelsDoubled(r) == (2 * r + 1) * 2

\* output_c = (2 * r + 1)**2
OutputChannels(r) == (2 * r + 1) * (2 * r + 1)

\* Variant: the division is done before the doubling.
OutputExtentFloorFirst(extent, pad, bd, stride_1) ==
    extent + 2 * ((pad - bd) \div stride_1)

\* extent + 2 * (self.pad - bd) // self.stride_1 : Python gives * and // the
\* same precedence and groups them from the left.
OutputExtent(extent, pad, bd, stride_1) == extent + (2 * (pad - bd)) \div stride_1

\* tf.transpose(t, perm) of a shape: axis k of the result is axis perm[k] of t
\* (axes counted from 0, tuples indexed from 1).
Permute(shape, perm) == [k \in 1..Len(perm) |-> shape[perm[k] + 1]]

(***************************************************************************)
(* CorrelationCost.__init__                                                *)
(***************************************************************************)
NewLayer(p, data_format) ==
    [kind |-> "layer",
     kernel_size |-> p.kernel_size,
     max_displacement |-> p.max_displacement,
     stride_1 |-> p.stride_1,
     stride_2 |-> p.stride_2,
     pad |-> p.pad,
     data_format |-> data_format]

\* Variant: the data_format is stored unchecked.
Init_Unchecked(p, data_format) ==
    [obj |-> NewLayer(p, data_format), res |-> Ok("__init__", <<>>)]

Init_(p, data_format) ==
    IF data_format # "channels_last" /\ data_format # "channels_first"
    THEN [obj |-> NoLayer,
          res |-> Raise("__init__", "ValueError", MsgLayoutInit)]
    ELSE [obj |-> NewLayer(p, data_format), res |-> Ok("__init__", <<>>)]

(***************************************************************************)
(* CorrelationCost.build                                                   *)
(***************************************************************************)
build(self, input_shape) ==
    IF ~input_shape.isList
    THEN Raise("build", "ValueError", MsgTwoTensors)
    ELSE Ok("build", <<>>)

(***************************************************************************)
(* CorrelationCost.compute_output_shape                                    *)
(***************************************************************************)
\* Variant: the loop stops one axis short.
ShapesAgreeThreeAxes(a, b) == \A idx \in 1..3 : a[idx] = b[idx]

\* for idx in range(4): if input_shape[0][idx] != input_shape[1][idx]: raise
ShapesAgree(a, b) == \A idx \in 1..4 : a[idx] = b[idx]

compute_output_shape(self, input_shape) ==
    IF ~input_shape.isList
    THEN Raise("compute_output_shape", "AssertionError", "")
    ELSE LET l == input_shape.items IN
    IF Len(l) # 2
    THEN Raise("compute_output_shape", "ValueError", MsgTwoShapes)
    ELSE IF ~ShapesAgree(l[1], l[2])
    THEN Raise("compute_output_shape", "ValueError", MsgShapesMatch)
    ELSE IF self.stride_2 = 0
    THEN Raise("compute_output_shape", "ZeroDivisionError", "")
    ELSE LET n == l[1][1]
             r == DisplacementRadius(self.max_displacement, self.stride_2)
             bd == BorderSize(self.max_displacement, self.kernel_size)
             output_c == OutputChannels(r)
         IN
    IF self.data_format = "channels_first"
    THEN IF self.stride_1 = 0
         THEN Raise("compute_output_shape", "ZeroDivisionError", "")
         ELSE LET output_h == OutputExtent(l[1][3], self.pad, bd, self.stride_1)
                  output_w == OutputExtent(l[1][4], self.pad, bd, self.stride_1)
              IN Ok("compute_output_shape", << <<n, output_c, output_h, output_w>> >>)
    ELSE IF self.data_format = "channels_last"
    THEN IF self.stride_1 = 0
         THEN Raise("compute_output_shape", "ZeroDivisionError", "")
         ELSE LET output_h == OutputExtent(l[1][2], self.pad, bd, self.stride_1)
                  output_w == OutputExtent(l[1][3], self.pad, bd, self.stride_1)
              IN Ok("compute_output_shape", << <<n, output_h, output_w, output_c>> >>)
    ELSE Raise("compute_output_shape", "ValueError", MsgLayout)

(***************************************************************************)
(* _correlation_cost                                                       *)
(***************************************************************************)
\* The op node op_call creates: the forward kernel with its inputs and attrs.
ForwardOp(input_a, input_b, p, op_data_format) ==
    [kind |-> "AddonsCorrelationCost",
     input_a |-> input_a,
     input_b |-> input_b,
     kernel_size |-> p.kernel_size,
     max_displacement |-> p.max_displacement,
     stride_1 |-> p.stride_1,
     stride_2 |-> p.stride_2,
     pad |-> p.pad,
     data_format |-> op_data_format]

\* The tensor an op returns, and tf.transpose of it.
Identity == <<0, 1, 2, 3>>
OutputOf(op) == [kind |-> "tensor", of |-> op, perm |-> Identity]
Transpose(t, perm) == [t EXCEPT !.perm = Permute(t.perm, perm)]

\* Variant: the result is transposed whatever the data_format.
ReturnLayoutAlways(ret, data_format) == Transpose(ret, <<0, 2, 3, 1>>)

\* The value returned for ret under the caller's data_format (lines 105-109).
ReturnLayout(ret, data_format) ==
    IF data_format = "channels_last"
    THEN Transpose(ret, <<0, 2, 3, 1>>)
    ELSE ret

correlation_cost(fn, input_a, input_b, p, data_format) ==
    IF data_format # "channels_last" /\ data_format # "channels_first"
    THEN [op |-> NoOp, res |-> Raise(fn, "ValueError", MsgLayout)]
    ELSE LET op_data_format == IF data_format = "channels_last" THEN "NHWC" ELSE "NCHW"
             op == ForwardOp(input_a, input_b, p, op_data_format)
         IN [op |-> op, res |-> Ok(fn, ReturnLayout(OutputOf(op), data_format))]

(***************************************************************************)
(* CorrelationCost.call                                                    *)
(***************************************************************************)
LayerParams(self) ==
    [kernel_size |-> self.kernel_size,
     max_displacement |-> self.max_displacement,
     stride_1 |-> self.stride_1,
     stride_2 |-> self.stride_2,
     pad |-> self.pad]

call(self, inputs) ==
    IF ~inputs.isList
    THEN [op |-> NoOp, res |-> Raise("call", "ValueError", MsgTwoTensors)]
    ELSE IF Len(inputs.items) < 2
    THEN [op |-> NoOp, res |-> Raise("call", "IndexError", "list index out of range")]
    ELSE correlation_cost("call", inputs.items[1], inputs.items[2],
                          LayerParams(self), self.data_format)

(***************************************************************************)
(* _correlation_cost_grad                                                  *)
(***************************************************************************)
\* The op node the gradient creates: the backward kernel.
BackwardOp(input_a, input_b, grad_output, kernel_size, max_displacement, stride_1, stride_2, pad, data_format) ==
    [kind |-> "AddonsCorrelationCostGrad",
     input_a |-> input_a,
     input_b |-> input_b,
     grad_output |-> grad_output,
     kernel_size |-> kernel_size,
     max_displacement |-> max_displacement,
     stride_1 |-> stride_1,
     stride_2 |-> stride_2,
     pad |-> pad,
     data_format |-> data_format]

\* The two outputs of the backward kernel: the gradient with respect to its
\* first input, then with respect to its second.
GradOutputs(gop) ==
    << [kind |-> "grad", wrt |-> gop.input_a, of |-> gop],
       [kind |-> "grad", wrt |-> gop.input_b, of |-> gop] >>

\* Variant: the two strides change places.
correlation_cost_grad_strides(op, grad_output) ==
    LET gop == BackwardOp(op.input_a, op.input_b, grad_output,
                          op.kernel_size, op.max_displacement,
                          op.stride_2, op.stride_1, op.pad, op.data_format)
        grads == GradOutputs(gop)
    IN [op |-> gop, res |-> Ok("grad", <<grads[1], grads[2]>>)]

correlation_cost_grad(op, grad_output) ==
    LET gop == BackwardOp(op.input_a, op.input_b, grad_output,
                          op.kernel_size, op.max_displacement,
                          op.stride_1, op.stride_2, op.pad, op.data_format)
        grads == GradOutputs(gop)
    IN [op |-> gop, res |-> Ok("grad", <<grads[1], grads[2]>>)]

(***************************************************************************)
(* The wrapper as a state machine: a caller constructs a layer, runs one   *)
(* operation at a time and takes its result.                               *)
(***************************************************************************)
KernelOff ==
    /\ kcfg = NoArgs
    /\ kphase = "off"
    /\ kpos = <<>>
    /\ out = <<>>
    /\ writes = <<>>
    /\ gradA = <<>>
    /\ gradB = <<>>

Init ==
    /\ layer = NoLayer
    /\ args = NoArgs
    /\ res = Idle
    /\ invoked = NoOp
    /\ KernelOff

UpstreamGrads == {[id |-> "dy1"], [id |-> "dy2"]}

ShapeArgs == {ListArg(l) : l \in ShapeLists} \cup {BareArg(s) : s \in Shapes}
BuildArgs == {ListArg(l) : l \in BaseLists} \cup {BareArg(BaseShape)}
TensorArgs == {ListArg(TensorList(l)) : l \in BaseLists}
                  \cup {BareArg(Tensor(1, BaseShape))}
TensorPairs == {TensorList(l) : l \in {m \in BaseLists : Len(m) = 2}}

Construct(p, data_format) ==
    /\ res.status = "idle"
    /\ layer.kind = "none"
    /\ LET c == Init_(p, data_format) IN
        /\ layer' = c.obj
        /\ res' = c.res
    /\ args' = [fn |-> "__init__", params |-> p, data_format |-> data_format]
    /\ invoked' = NoOp
    /\ UNCHANGED kvars

Build(input_shape) ==
    /\ res.status = "idle"
    /\ layer.kind = "layer"
    /\ res' = build(layer, input_shape)
    /\ args' = [fn |-> "build", inputs |-> input_shape]
    /\ invoked' = NoOp
    /\ UNCHANGED <<layer, kvars>>

Call(inputs) ==
    /\ res.status = "idle"
    /\ layer.kind = "layer"
    /\ LET c == call(layer, inputs) IN
        /\ res' = c.res
        /\ invoked' = c.op
    /\ args' = [fn |-> "call", inputs |-> inputs]
    /\ UNCHANGED <<layer, kvars>>

ComputeOutputShape(input_shape) ==
    /\ res.status = "idle"
    /\ layer.kind = "layer"
    /\ res' = compute_output_shape(layer, input_shape)
    /\ args' = [fn |-> "compute_output_shape", inputs |-> input_shape]
    /\ invoked' = NoOp
    /\ UNCHANGED <<layer, kvars>>

\* _correlation_cost called as a function, without a layer.
CorrelationCost(input_a, input_b, p, data_format) ==
    /\ res.status = "idle"
    /\ layer.kind = "none"
    /\ LET c == correlation_cost("_correlation_cost", input_a, input_b, p, data_format) IN
        /\ res' = c.res
        /\ invoked' = c.op
    /\ args' = [fn |-> "_correlation_cost",
                inputs |-> ListArg(<<input_a, input_b>>),
                params |-> p, data_format |-> data_format]
    /\ UNCHANGED <<layer, kvars>>

\* Backpropagation through the forward op just created.
Gradient(grad_output) ==
    /\ res.status = "ok"
    /\ invoked.kind = "AddonsCorrelationCost"
    /\ LET c == correlation_cost_grad(invoked, grad_output) IN
        /\ res' = c.res
        /\ invoked' = c.op
    /\ args' = [fn |-> "grad", op |-> invoked, grad_output |-> grad_output]
    /\ UNCHANGED <<layer, kvars>>

\* The caller takes the result (or the error) of the operation.
Return ==
    /\ res.status # "idle"
    /\ res' = Idle
    /\ args' = NoArgs
    /\ invoked' = NoOp
    /\ UNCHANGED <<layer, kvars>>

Ready == res.status = "idle"
HasLayer == layer.kind = "layer"

Next ==
    \/ Ready /\ ~HasLayer /\ \E p \in Params, df \in DataFormats : Construct(p, df)
    \/ Ready /\ HasLayer /\ \E x \in BuildArgs : Build(x)
    \/ Ready /\ HasLayer /\ \E x \in TensorArgs : Call(x)
    \/ Ready /\ HasLayer /\ \E x \in ShapeArgs : ComputeOutputShape(x)
    \/ Ready /\ ~HasLayer /\
         \E l \in TensorPairs, p \in Params, df \in DataFormats :
           CorrelationCost(l[1], l[2], p, df)
    \/ ~Ready /\ \E g \in UpstreamGrads : Gradient(g)
    \/ Return

Spec == Init /\ [][Next]_vars

(***************************************************************************)
(* The correlation kernels (the AddonsCorrelationCost and                  *)
(* AddonsCorrelationCostGrad ops loaded from _correlation_cost_ops.so),    *)
(* on channel-first tensors.  Two workers share the (n, i, j, dy, dx)      *)
(* iterations; a step is one iteration, and its writes are atomic.         *)
(***************************************************************************)
Workers == {1, 2}

\* Feature maps of one batch entry and two channels, MaxDim high and wide.
KernelShape == <<1, 2, MaxDim, MaxDim>>

\* Output extent of the kernel along one spatial axis.
KernelExtent(extent, pad, bd, stride_1) == extent + 2 * ((pad - bd) \div stride_1)

\* The geometry of a run with parameters p, computed once at launch.
Geometry(p) ==
    LET r == DisplacementRadius(p.max_displacement, p.stride_2)
        bd == BorderSize(p.max_displacement, p.kernel_size)
    IN [r |-> r,
        bd |-> bd,
        out_c |-> OutputChannels(r),
        out_h |-> KernelExtent(p.shape[3], p.pad, bd, p.stride_1),
        out_w |-> KernelExtent(p.shape[4], p.pad, bd, p.stride_1)]

\* Kernel parameters: odd kernel_size, strides of at least 1.  A search radius
\* of at most 1 (a 3 x 3 displacement grid) keeps the interleavings of the two
\* workers enumerable.
KernelParams ==
    [shape : {KernelShape},
     kernel_size : {k \in KernelSizes : k % 2 = 1},
     max_displacement : {0, 1},
     stride_1 : Strides \ {0},
     stride_2 : Strides \ {0},
     pad : Pads,
     seed : {0, 1}]

\* A launched run: its parameters and its geometry.
Launch(p) ==
    LET g == Geometry(p) IN
    [shape |-> p.shape, kernel_size |-> p.kernel_size,
     max_displacement |-> p.max_displacement,
     stride_1 |-> p.stride_1, stride_2 |-> p.stride_2,
     pad |-> p.pad, seed |-> p.seed,
     r |-> g.r, bd |-> g.bd, out_c |-> g.out_c, out_h |-> g.out_h, out_w |-> g.out_w]

KRadius(c) == c.r
KBorder(c) == c.bd
KOutH(c) == c.out_h
KOutW(c) == c.out_w
KOutC(c) == c.out_c

\* Kernel runs: valid parameters whose output is not empty and no larger than
\* the input.
KernelConfigs ==
    {c \in {Launch(p) : p \in KernelParams} :
        /\ KOutH(c) > 0 /\ KOutH(c) <= c.shape[3]
        /\ KOutW(c) > 0 /\ KOutW(c) <= c.shape[4]}

\* Elements of the inputs (and of their gradients) and of the output.
InElems(c) == (0..(c.shape[1] - 1)) \X (0..(c.shape[2] - 1))
                 \X (0..(c.shape[3] - 1)) \X (0..(c.shape[4] - 1))
OutElems(c) == (0..(c.shape[1] - 1)) \X (0..(KOutC(c) - 1))
                 \X (0..(KOutH(c) - 1)) \X (0..(KOutW(c) - 1))

\* Input values; a position outside the unpadded extent reads as zero.
Inside(c, y, x) == y >= 0 /\ y < c.shape[3] /\ x >= 0 /\ x < c.shape[4]
AVal(c, n, ch, y, x) ==
    IF Inside(c, y, x) THEN 1 + ((c.seed + ch + y * c.shape[4] + x) % 3) ELSE 0
BVal(c, n, ch, y, x) ==
    IF Inside(c, y, x) THEN 1 + ((c.seed + 2 * ch + x * c.shape[3] + y) % 2) ELSE 0
\* The upstream gradient.
GVal(c, n, ch, i, j) == 1 + ((ch + i + 2 * j) % 2)

\* The iteration space, counted 0 .. NumIterations - 1 with dx fastest.
KSide(c) == 2 * KRadius(c) + 1
NumIterations(c) == c.shape[1] * KOutH(c) * KOutW(c) * KSide(c) * KSide(c)
Iteration(c, t) ==
    LET d == KSide(c) IN
    [n |-> t \div (d * d * KOutW(c) * KOutH(c)),
     i |-> (t \div (d * d * KOutW(c))) % KOutH(c),
     j |-> (t \div (d * d)) % KOutW(c),
     dy |-> ((t \div d) % d) - KRadius(c),
     dx |-> (t % d) - KRadius(c)]

\* Output channel of the displacement (dy, dx).
ChannelIndex(dy, dx, r) == (dy + r) * (2 * r + 1) + (dx + r)

\* Centre of the patch of A for output position i, in unpadded coordinates.
Anchor(c, i) == i * c.stride_1 + KBorder(c) - c.pad
PatchRadius(c) == (c.kernel_size - 1) \div 2
Offsets(c) == (-PatchRadius(c))..PatchRadius(c)

RECURSIVE SumSeq(_)
SumSeq(q) == IF q = <<>> THEN 0 ELSE Head(q) + SumSeq(Tail(q))

RECURSIVE SetToSeq(_)
SetToSeq(S) == IF S = {} THEN <<>>
               ELSE LET e == CHOOSE e \in S : TRUE IN <<e>> \o SetToSeq(S \ {e})

\* Sum of F over the finite set S.
Sum(S, F(_)) == LET q == SetToSeq(S) IN SumSeq([k \in 1..Len(q) |-> F(q[k])])

\* The correlation value of one iteration: the sum over the patch and all
\* channels of the products of A at the anchor and B at the displaced anchor.
Correlation(c, it) ==
    LET k == c.kernel_size
        pr == PatchRadius(c)
        term(ch, py, px) ==
            AVal(c, it.n, ch, Anchor(c, it.i) + py, Anchor(c, it.j) + px)
          * BVal(c, it.n, ch, Anchor(c, it.i) + it.dy * c.stride_2 + py,
                              Anchor(c, it.j) + it.dx * c.stride_2 + px)
    IN SumSeq([m \in 1..(c.shape[2] * k * k) |->
                  term((m - 1) \div (k * k),
                       (((m - 1) \div k) % k) - pr,
                       ((m - 1) % k) - pr)])

\* The output element an iteration writes.
Target(c, it) == <<it.n, ChannelIndex(it.dy, it.dx, KRadius(c)), it.i, it.j>>

\* Does the iteration's patch of A (of B) cover element e of A (of B)?
CoversA(c, it, e) ==
    /\ e[1] = it.n
    /\ e[3] - Anchor(c, it.i) \in Offsets(c)
    /\ e[4] - Anchor(c, it.j) \in Offsets(c)
CoversB(c, it, e) ==
    /\ e[1] = it.n
    /\ e[3] - (Anchor(c, it.i) + it.dy * c.stride_2) \in Offsets(c)
    /\ e[4] - (Anchor(c, it.j) + it.dx * c.stride_2) \in Offsets(c)

\* What the iteration contributes to element e of grad_A and of grad_B.
UpstreamOf(c, it) == GVal(c, it.n, ChannelIndex(it.dy, it.dx, KRadius(c)), it.i, it.j)
ContribA(c, it, e) ==
    UpstreamOf(c, it)
      * BVal(c, e[1], e[2], e[3] + it.dy * c.stride_2, e[4] + it.dx * c.stride_2)
ContribB(c, it, e) ==
    UpstreamOf(c, it)
      * AVal(c, e[1], e[2], e[3] - it.dy * c.stride_2, e[4] - it.dx * c.stride_2)

\* Variant: the contribution replaces what the element held.
Overwrite(old, contribution) == contribution

\* Accumulation into a gradient element.
Accumulate(old, contribution) == old + contribution

\* The iterations of worker w: w - 1, w - 1 + |Workers|, ...
Quota(c, w) == (NumIterations(c) - (w - 1) + Cardinality(Workers) - 1)
                  \div Cardinality(Workers)
Current(c, w, k) == Iteration(c, (w - 1) + k * Cardinality(Workers))
Finished(c) == \A w \in Workers : kpos[w] = Quota(c, w)

WrapperOff ==
    /\ layer = NoLayer
    /\ args = NoArgs
    /\ res = Idle
    /\ invoked = NoOp

KernelInit ==
    /\ WrapperOff
    /\ kcfg \in KernelConfigs
    /\ kphase = "forward"
    /\ kpos = [w \in Workers |-> 0]
    /\ out = [e \in OutElems(kcfg) |-> 0]
    /\ writes = [e \in OutElems(kcfg) |-> 0]
    /\ gradA = <<>>
    /\ gradB = <<>>

\* One iteration of the forward kernel.
ForwardStep(w) ==
    /\ kphase = "forward"
    /\ kpos[w] < Quota(kcfg, w)
    /\ LET it == Current(kcfg, w, kpos[w])
           e == Target(kcfg, it)
       IN /\ out' = [out EXCEPT ![e] = Correlation(kcfg, it)]
          /\ writes' = [writes EXCEPT ![e] = @ + 1]
    /\ kpos' = [kpos EXCEPT ![w] = @ + 1]
    /\ UNCHANGED <<kcfg, kphase, gradA, gradB, wvars>>

\* The backward kernel is started on the same inputs and parameters, with
\* zero-filled gradients.
StartBackward ==
    /\ kphase = "forward"
    /\ Finished(kcfg)
    /\ kphase' = "backward"
    /\ kpos' = [w \in Workers |-> 0]
    /\ out' = <<>>
    /\ writes' = <<>>
    /\ gradA' = [e \in InElems(kcfg) |-> 0]
    /\ gradB' = [e \in InElems(kcfg) |-> 0]
    /\ UNCHANGED <<kcfg, wvars>>

\* One iteration of the backward kernel.
BackwardStep(w) ==
    /\ kphase = "backward"
    /\ kpos[w] < Quota(kcfg, w)
    /\ LET it == Current(kcfg, w, kpos[w]) IN
          /\ gradA' = [e \in DOMAIN gradA |->
                          IF CoversA(kcfg, it, e)
                          THEN Accumulate(gradA[e], ContribA(kcfg, it, e))
                          ELSE gradA[e]]
          /\ gradB' = [e \in DOMAIN gradB |->
                          IF CoversB(kcfg, it, e)
                          THEN Accumulate(gradB[e], ContribB(kcfg, it, e))
                          ELSE gradB[e]]
    /\ kpos' = [kpos EXCEPT ![w] = @ + 1]
    /\ UNCHANGED <<kcfg, kphase, out, writes, wvars>>

KernelNext ==
    \/ \E w \in Workers : ForwardStep(w)
    \/ StartBackward
    \/ \E w \in Workers : BackwardStep(w)

KernelSpec == KernelInit /\ [][KernelNext]_vars


(***************************************************************************)
(* Properties of the wrapper, checked under Spec.                          *)
(***************************************************************************)
Ran(f) == res.status # "idle" /\ res.fn = f
Returned(f) == res.status = "ok" /\ res.fn = f
Failed(f) == res.status = "error" /\ res.fn = f

ShapeMismatchError(r) ==
    /\ r.status = "error"
    /\ r.type = "ValueError"
    /\ r.msg \in {MsgTwoTensors, MsgTwoShapes, MsgShapesMatch}

InvalidLayoutError(r) ==
    /\ r.status = "error"
    /\ r.type = "ValueError"
    /\ r.msg \in {MsgLayout, MsgLayoutInit}

RecognizedLayouts == {"channels_last", "channels_first"}

\* kernel_size odd and positive, both strides at least 1.
ValidParams(q) ==
    /\ q.kernel_size >= 1
    /\ q.kernel_size % 2 = 1
    /\ q.stride_1 >= 1
    /\ q.stride_2 >= 1

\* A list of exactly two entries.
IsPair(x) == x.isList /\ Len(x.items) = 2

\* A list of exactly two shapes that agree in all four axes.
IsMatchingPair(x) ==
    /\ IsPair(x)
    /\ \A i \in 1..4 : x.items[1][i] = x.items[2][i]

\* C1 as stated: in channel-first layout, for valid parameters (and positive
\* extents), compute_output_shape returns (N, C', H', W') with
\* bd = max_displacement + floor((kernel_size - 1) / 2),
\* r = floor(max_displacement / stride_2), C' = (2r + 1)^2 and
\* H' = H + 2 * floor((pad - bd) / stride_1), W' likewise.
C1_AsStated ==
    (/\ Returned("compute_output_shape")
     /\ layer.data_format = "channels_first"
     /\ ValidParams(layer))
    => LET s == args.inputs.items[1]
           bd == layer.max_displacement + ((layer.kernel_size - 1) \div 2)
           r == layer.max_displacement \div layer.stride_2
           h == s[3] + 2 * ((layer.pad - bd) \div layer.stride_1)
           w == s[4] + 2 * ((layer.pad - bd) \div layer.stride_1)
       IN (h > 0 /\ w > 0 /\ res.value[1][3] > 0 /\ res.value[1][4] > 0)
          => res.value = << <<s[1], (2 * r + 1) * (2 * r + 1), h, w>> >>

\* C1 amended: as above with H' = H + floor(2 * (pad - bd) / stride_1) and
\* W' = W + floor(2 * (pad - bd) / stride_1); H' = H and W' = W when pad = bd.
C1_OutputShape ==
    (/\ Returned("compute_output_shape")
     /\ layer.data_format = "channels_first"
     /\ ValidParams(layer))
    => LET s == args.inputs.items[1]
           bd == layer.max_displacement + ((layer.kernel_size - 1) \div 2)
           r == layer.max_displacement \div layer.stride_2
           h == s[3] + ((2 * (layer.pad - bd)) \div layer.stride_1)
           w == s[4] + ((2 * (layer.pad - bd)) \div layer.stride_1)
       IN /\ res.value = << <<s[1], (2 * r + 1) * (2 * r + 1), h, w>> >>
          /\ layer.pad = bd => (res.value[1][3] = s[3] /\ res.value[1][4] = s[4])

\* C1 witness: a shape returned in channel-first layout for valid parameters
\* where stride_1 = 2 and pad - bd is odd, the case in which the two formulas
\* differ, with a kernel radius of 1.
C1_Witness ==
    /\ Returned("compute_output_shape")
    /\ layer.data_format = "channels_first"
    /\ ValidParams(layer)
    /\ layer.stride_1 = 2
    /\ layer.kernel_size = 3
    /\ (layer.pad - layer.max_displacement - 1) % 2 = 1
    /\ res.value[1][3] > 0

\* C2: compute_output_shape raises the shape-mismatch error whenever the list of
\* shapes has not exactly two entries or the two shapes differ in one of the
\* four axes, and returns a shape only for two entries agreeing in all four.
C2_ShapeMismatch ==
    (Ran("compute_output_shape") /\ args.inputs.isList)
    => /\ ~IsMatchingPair(args.inputs) => ShapeMismatchError(res)
       /\ res.status = "ok" => IsMatchingPair(args.inputs)
       /\ IsMatchingPair(args.inputs) => ~ShapeMismatchError(res)

\* C2 witness: two shapes that differ in the last axis only were refused.
C2_Witness ==
    /\ Failed("compute_output_shape")
    /\ IsPair(args.inputs)
    /\ \A i \in 1..3 : args.inputs.items[1][i] = args.inputs.items[2][i]
    /\ args.inputs.items[1][4] # args.inputs.items[2][4]
    /\ ShapeMismatchError(res)

\* C3 as stated: call and build given anything but a list of exactly two
\* tensors fail with the shape-mismatch error and never invoke the kernel.
C3_AsStated ==
    ((Ran("call") \/ Ran("build")) /\ ~IsPair(args.inputs))
    => (ShapeMismatchError(res) /\ invoked.kind = "none")

\* C4 as stated: shape inference fails instead of returning a shape whenever
\* H' <= 0 or W' <= 0, or kernel_size is even or non-positive, or a stride is
\* below 1; every returned shape has strictly positive spatial extents.
C4_AsStated ==
    Returned("compute_output_shape")
    => LET v == res.value[1]
           h == IF layer.data_format = "channels_first" THEN v[3] ELSE v[2]
           w == IF layer.data_format = "channels_first" THEN v[4] ELSE v[3]
       IN ValidParams(layer) /\ h > 0 /\ w > 0

\* C5: the constructor and _correlation_cost raise the invalid-layout error for
\* every data_format other than "channels_last" and "channels_first" and accept
\* these two; compute_output_shape accepts these two and refuses any other
\* value it is run with; no constructed layer holds another value.
C5_Layout ==
    /\ layer.kind = "layer" => layer.data_format \in RecognizedLayouts
    /\ Ran("__init__") =>
          IF args.data_format \in RecognizedLayouts
          THEN res.status = "ok" /\ layer.kind = "layer"
                 /\ layer.data_format = args.data_format
          ELSE InvalidLayoutError(res) /\ layer.kind = "none"
                 /\ LET self == NewLayer(args.params, args.data_format)
                        r == compute_output_shape(self, ListArg(<<BaseShape, BaseShape>>))
                    IN args.params.stride_2 # 0 => InvalidLayoutError(r)
    /\ Ran("_correlation_cost") =>
          IF args.data_format \in RecognizedLayouts
          THEN res.status = "ok"
          ELSE InvalidLayoutError(res) /\ invoked.kind = "none"
    /\ Ran("compute_output_shape") => ~InvalidLayoutError(res)
    /\ Ran("call") => ~InvalidLayoutError(res)

\* C5 witness: the constructor refused an unrecognized data_format.
C5_Witness ==
    /\ Failed("__init__")
    /\ args.data_format = "NHWC"
    /\ InvalidLayoutError(res)
    /\ layer.kind = "none"

\* C6 as stated: on the forward path, the kernel is invoked only after layout,
\* input arity, A/B shape agreement and geometry have been validated.
C6_AsStated ==
    (Ran("call") /\ invoked.kind = "AddonsCorrelationCost")
    => /\ IsPair(args.inputs)
       /\ args.inputs.items[1].shape = args.inputs.items[2].shape
       /\ layer.data_format \in RecognizedLayouts
       /\ ValidParams(layer)

\* C9: the gradient invokes the backward kernel with the forward op's
\* kernel_size, max_displacement, stride_1, stride_2, pad and layout tag, its
\* two inputs in the same order and the upstream gradient, and returns two
\* gradients, for A then for B.
C9_Gradient ==
    Ran("grad")
    => LET op == args.op
           gop == invoked
       IN /\ gop.kind = "AddonsCorrelationCostGrad"
          /\ gop.kernel_size = op.kernel_size
          /\ gop.max_displacement = op.max_displacement
          /\ gop.stride_1 = op.stride_1
          /\ gop.stride_2 = op.stride_2
          /\ gop.pad = op.pad
          /\ gop.data_format = op.data_format
          /\ gop.input_a = op.input_a
          /\ gop.input_b = op.input_b
          /\ gop.grad_output = args.grad_output
          /\ res.status = "ok"
          /\ Len(res.value) = 2
          /\ res.value[1] = [kind |-> "grad", wrt |-> op.input_a, of |-> gop]
          /\ res.value[2] = [kind |-> "grad", wrt |-> op.input_b, of |-> gop]
          /\ layer.kind = "layer" =>
                /\ op.kernel_size = layer.kernel_size
                /\ op.max_displacement = layer.max_displacement
                /\ op.stride_1 = layer.stride_1
                /\ op.stride_2 = layer.stride_2
                /\ op.pad = layer.pad

\* C9 witness: a gradient was taken of a forward op whose strides differ and
\* whose inputs have different shapes.
C9_Witness ==
    /\ Returned("grad")
    /\ args.op.stride_1 # args.op.stride_2
    /\ args.op.input_a.shape # args.op.input_b.shape
    /\ args.op.data_format = "NHWC"

\* The channel-first shape (N, C, H, W) of a channel-last shape (N, H, W, C).
ToChannelsFirst(s) == Permute(s, <<0, 3, 1, 2>>)

\* C10: compute_output_shape under "channels_last" on the (N, H, W, C) shapes
\* is the (0, 2, 3, 1) permutation of compute_output_shape under
\* "channels_first" on the (N, C, H, W) shapes; _correlation_cost returns the
\* kernel's result permuted by (0, 2, 3, 1) exactly when data_format is
\* "channels_last", and unpermuted when it is "channels_first".
C10_Layout ==
    /\ (Ran("compute_output_shape") /\ layer.data_format = "channels_last"
           /\ IsMatchingPair(args.inputs))
       => LET x == ListArg([i \in 1..2 |-> ToChannelsFirst(args.inputs.items[i])])
              cf == compute_output_shape(
                        [layer EXCEPT !.data_format = "channels_first"], x)
          IN /\ cf.status = res.status
             /\ res.status = "ok" =>
                   res.value = << Permute(cf.value[1], <<0, 2, 3, 1>>) >>
             /\ res.status = "error" => res = cf
    /\ (Returned("call") \/ Returned("_correlation_cost"))
       => LET df == IF res.fn = "call" THEN layer.data_format ELSE args.data_format
          IN /\ res.value.of = invoked
             /\ invoked.kind = "AddonsCorrelationCost"
             /\ invoked.data_format = (IF df = "channels_last" THEN "NHWC" ELSE "NCHW")
             /\ res.value.perm = (IF df = "channels_last"
                                  THEN <<0, 2, 3, 1>> ELSE <<0, 1, 2, 3>>)

\* C10 witness: a channel-last shape was returned whose height, width and
\* channel extents are pairwise different.
C10_Witness ==
    /\ Returned("compute_output_shape")
    /\ layer.data_format = "channels_last"
    /\ res.value[1][2] # res.value[1][3]
    /\ res.value[1][3] # res.value[1][4]
    /\ res.value[1][2] # res.value[1][4]
    /\ res.value[1][2] > 0

(***************************************************************************)
(* Properties of the kernels, checked under KernelSpec.                    *)
(***************************************************************************)
AllIterations(c) == {Iteration(c, t) : t \in 0..(NumIterations(c) - 1)}

\* C7: when every worker has finished the backward pass, under any
\* interleaving of the iterations, each element of grad_A and of grad_B holds
\* the sum of all contributions targeting it, and an element no patch covers
\* holds zero.
C7_ScatterAdd ==
    (kphase = "backward" /\ Finished(kcfg))
    => LET its == AllIterations(kcfg) IN
       \A e \in InElems(kcfg) :
          LET ca == {it \in its : CoversA(kcfg, it, e)}
              cb == {it \in its : CoversB(kcfg, it, e)}
              fa(it) == ContribA(kcfg, it, e)
              fb(it) == ContribB(kcfg, it, e)
          IN /\ gradA[e] = Sum(ca, fa)
             /\ gradB[e] = Sum(cb, fb)
             /\ ca = {} => gradA[e] = 0
             /\ cb = {} => gradB[e] = 0

\* C7 witness: the backward pass has finished on a run where one element of A
\* is covered by several iterations (its gradient is a sum of several
\* contributions) and another is covered by none.
C7_Witness ==
    /\ kphase = "backward"
    /\ Finished(kcfg)
    /\ LET its == AllIterations(kcfg) IN
         /\ \E e \in InElems(kcfg) :
               /\ Cardinality({it \in its : CoversA(kcfg, it, e)}) >= 2
               /\ gradA[e] > 0
         /\ \E e \in InElems(kcfg) :
               /\ {it \in its : CoversA(kcfg, it, e)} = {}
               /\ gradA[e] = 0

\* C8: (dy, dx) -> (dy + r) * (2r + 1) + (dx + r) maps {-r..r} x {-r..r} one
\* to one onto the channels 0 .. C' - 1; during the forward pass no output
\* element is written twice, and when every worker has finished each output
\* element has been written exactly once.
C8_WriteOnce ==
    kphase = "forward"
    => LET r == KRadius(kcfg)
           disp == (-r..r) \X (-r..r)
       IN /\ \A d \in disp : ChannelIndex(d[1], d[2], r) \in 0..(KOutC(kcfg) - 1)
          /\ \A ch \in 0..(KOutC(kcfg) - 1) :
                Cardinality({d \in disp : ChannelIndex(d[1], d[2], r) = ch}) = 1
          /\ \A e \in DOMAIN writes : writes[e] <= 1
          /\ Finished(kcfg) =>
                /\ \A e \in DOMAIN writes : writes[e] = 1
                /\ Cardinality(DOMAIN writes) = NumIterations(kcfg)

\* C8 witness: the forward pass has finished over a 3 x 3 displacement grid and
\* more than one output position, every element written once.
C8_Witness ==
    /\ kphase = "forward"
    /\ Finished(kcfg)
    /\ KRadius(kcfg) = 1
    /\ KOutH(kcfg) > 1
    /\ \A e \in DOMAIN writes : writes[e] = 1

====
